---- MODULE Spec2Model ----
(***************************************************************************)
(* GitHub Repository Explorer (src/app/page.tsx).                          *)
(*                                                                         *)
(* The file holds two variants of one component:                           *)
(*   - the query variant (lines 1-238), which fetches through              *)
(*     @tanstack/react-query (useQuery, enabled: false, refetch());        *)
(*   - the local-state variant (lines 240-497), which keeps repos and      *)
(*     loading in component state and simulates the call with setTimeout.  *)
(*                                                                         *)
(* The model is a state machine whose steps are the DOM events (typing,    *)
(* click, Enter, Try Again), the completions of network requests, the      *)
(* timers of the fetch layer and the timers of the local-state variant.    *)
(* What is rendered is a function of the state (View).                     *)
(*                                                                         *)
(* The fetch layer is modelled as the library behaves with the options     *)
(* the source gives it: new QueryClient() (default retry: 3 with backoff,  *)
(* default gcTime), one query per queryKey ["repos", username], refetch()  *)
(* with cancelRefetch: true, isLoading = pending and fetching (the         *)
(* meaning of isLoading in version 5 of the library).                      *)
(***************************************************************************)
EXTENDS Integers, Sequences, FiniteSets, TLC

(***************************************************************************)
(* Bounds of the model.                                                    *)
(***************************************************************************)
MaxFetches == 3    \* fetches started in one run (refetch() calls, timers)
MaxTopics == 5     \* longest topic list given to the card renderer

(***************************************************************************)
(* Program constants.                                                      *)
(***************************************************************************)
DefaultRetry == 3    \* QueryClient default: a failed queryFn is retried 3 times
TopicLimit == 3      \* topics.slice(0, 3)

Variants == {"query", "local"}

(***************************************************************************)
(* Input text: a sequence of characters.  " " stands for any whitespace.   *)
(***************************************************************************)
RECURSIVE SeqsUpTo(_, _)
SeqsUpTo(S, n) ==
    IF n = 0 THEN {<<>>}
    ELSE LET shorter == SeqsUpTo(S, n - 1)
         IN  shorter \cup {Append(s, c) : s \in shorter, c \in S}

\* The texts the user can put into the input: empty, whitespace only, and
\* two user names (typed with trailing and with leading whitespace).
Texts == {<<>>, <<" ">>, <<"a", " ">>, <<" ", "b">>}

IsSpace(c) == c = " "

RECURSIVE trimStart(_)
trimStart(s) ==
    IF s = <<>> THEN <<>>
    ELSE IF IsSpace(Head(s)) THEN trimStart(Tail(s)) ELSE s

RECURSIVE trimEnd(_)
trimEnd(s) ==
    IF s = <<>> THEN <<>>
    ELSE IF IsSpace(s[Len(s)]) THEN trimEnd(SubSeq(s, 1, Len(s) - 1)) ELSE s

\* String.prototype.trim
trim(s) == trimEnd(trimStart(s))

\* !username.trim()  (the empty string is falsy)
Blank(s) == trim(s) = <<>>

Min(a, b) == IF a < b THEN a ELSE b

(***************************************************************************)
(* Repository records.  Only the fields the checked properties read are    *)
(* kept: id (the card key), name (the card title) and topics.              *)
(***************************************************************************)
\* What the API can return: repository i of the searched owner.
ApiTopics(i) ==
    CASE i = 1 -> <<"t1", "t2", "t3", "t4", "t5">>
      [] OTHER -> <<>>

ApiName(i) ==
    CASE i = 1 -> "a"
      [] OTHER -> "b"

ApiRepo(i) == [id |-> i, name |-> ApiName(i), topics |-> ApiTopics(i)]

\* The response bodies (response.json()) the API answers with: the empty
\* array and an array of two repositories.
Responses == {<<>>, <<ApiRepo(2), ApiRepo(1)>>}

\* The ways a request can fail: a non-2xx status or a transport error.
Failures == {"GitHub API error: 404", "Failed to fetch"}

dummyRepos ==
    << [id |-> 1, name |-> "awesome-react-components",
        topics |-> <<"react", "components", "ui", "typescript">>],
       [id |-> 2, name |-> "nextjs-dashboard",
        topics |-> <<"nextjs", "dashboard", "react", "tailwind">>],
       [id |-> 3, name |-> "api-gateway-service",
        topics |-> <<"nodejs", "api", "microservices", "express">>],
       [id |-> 4, name |-> "ml-image-classifier",
        topics |-> <<"python", "machine-learning", "tensorflow", "ai">>],
       [id |-> 5, name |-> "mobile-expense-tracker",
        topics |-> <<"react-native", "mobile", "typescript", "finance">>],
       [id |-> 6, name |-> "docker-dev-environment",
        topics |-> <<"docker", "devops", "development", "containers">>] >>

(***************************************************************************)
(* Card renderer.                                                          *)
(***************************************************************************)
TopicBadge(t) == [kind |-> "topic", text |-> t, count |-> 0]

\* <Badge>+{repo.topics.length - 3}</Badge>
OverflowBadge(n) == [kind |-> "overflow", text |-> "+", count |-> n]

\* Faulty version of TopicBadges: the overflow badge already at 3 topics.
TopicBadges_OverflowAtLimit(topics) ==
    LET shown == SubSeq(topics, 1, Min(Len(topics), TopicLimit))
        badges == [i \in 1 .. Len(shown) |-> TopicBadge(shown[i])]
    IN  IF Len(topics) >= TopicLimit
        THEN Append(badges, OverflowBadge(Len(topics) - TopicLimit))
        ELSE badges

\* topics.slice(0, 3).map(...) followed by the "+k" badge when length > 3
TopicBadges(topics) ==
    LET shown == SubSeq(topics, 1, Min(Len(topics), TopicLimit))
        badges == [i \in 1 .. Len(shown) |-> TopicBadge(shown[i])]
    IN  IF Len(topics) > TopicLimit
        THEN Append(badges, OverflowBadge(Len(topics) - TopicLimit))
        ELSE badges

RepoCard(repo) ==
    [key |-> repo.id, title |-> repo.name, badges |-> TopicBadges(repo.topics)]

\* repos.map((repo) => <Card .../>)
Cards(list) == [i \in 1 .. Len(list) |-> RepoCard(list[i])]

(***************************************************************************)
(* State.                                                                  *)
(*                                                                         *)
(* variant    which of the two components is mounted                       *)
(* username   useState("")  - the input text                               *)
(* searched   useState(false)                                              *)
(* repos      useState([])  - local-state variant                          *)
(* loading    useState(false) - local-state variant                        *)
(* timers     pending setTimeout callbacks of the local-state variant, in  *)
(*            the order they were set (equal delays fire in that order)    *)
(* cache      the QueryClient's cache: the state of the query of each key  *)
(* requests   the fetches of the fetch layer that are not settled: a       *)
(*            network request in flight or a retry waiting for its delay   *)
(* nextId     number of the next fetch                                     *)
(*                                                                         *)
(* History variables, read by the properties only:                         *)
(* lastOp     the event handled last                                       *)
(* lastDone   the fetch whose response arrived (timer fired) last          *)
(* overlapped whether the newest fetch was started while another fetch was *)
(*            not settled                                                  *)
(* writer     the timer that wrote repos (local-state variant)             *)
(* timerText  the input text at the search that set each pending timer     *)
(* reposFor   the input text at the search whose timer wrote repos         *)
(* dataFor    per key, the user whose response is stored as its data       *)
(***************************************************************************)
VARIABLES variant, username, searched, repos, loading, timers,
          cache, requests, nextId,
          lastOp, lastDone, overlapped, writer,
          timerText, reposFor, dataFor,
          cardTopics, cardBadges

progVars == <<variant, username, searched, repos, loading, timers,
              cache, requests, nextId>>

histVars == <<lastOp, lastDone, overlapped, writer,
              timerText, reposFor, dataFor>>

cardVars == <<cardTopics, cardBadges>>

vars == <<progVars, histVars, cardVars>>

\* A query the cache has just built: no data, no error, not fetching.
\* from is a history field: the fetch that produced data.
DefaultQuery ==
    [status |-> "pending", fetchStatus |-> "idle", hasData |-> FALSE,
     data |-> <<>>, error |-> "", from |-> 0]

Init ==
    /\ variant \in Variants
    /\ username = <<>>
    /\ searched = FALSE
    /\ repos = <<>>
    /\ loading = FALSE
    /\ timers = <<>>
    /\ cache = [k \in Texts |-> DefaultQuery]
    /\ requests = {}
    /\ nextId = 1
    /\ lastOp = "mount"
    /\ lastDone = 0
    /\ overlapped = FALSE
    /\ writer = 0
    /\ timerText = <<>>
    /\ reposFor = <<>>
    /\ dataFor = [k \in Texts |-> <<>>]
    /\ cardTopics = <<>>
    /\ cardBadges = <<>>

(***************************************************************************)
(* Observer result of useQuery for the current key.                        *)
(***************************************************************************)
Query == cache[username]

isLoading == Query.status = "pending" /\ Query.fetchStatus = "fetching"

isError == Query.status = "error"

\* The fetches that have not completed: network requests whose response has
\* not arrived (query variant), timers that have not fired (local variant).
InFlight == {r \in requests : r.phase = "inflight"}

Outstanding ==
    IF variant = "query" THEN {r.id : r \in InFlight}
    ELSE {timers[i] : i \in 1 .. Len(timers)}

\* The retryer of the query of key k, if its fetch is not settled.
Retryer(k) == {r \in requests : r.key = k /\ r.live}

(***************************************************************************)
(* What is rendered, as a function of the state.                           *)
(***************************************************************************)
\* <Button disabled={isLoading || !username.trim()}>
ButtonDisabled ==
    IF variant = "query" THEN isLoading \/ Blank(username)
    ELSE loading \/ Blank(username)

\* {isLoading ? "Searching..." : "Search"}
ButtonLabel ==
    IF variant = "query"
    THEN (IF isLoading THEN "Searching..." ELSE "Search")
    ELSE (IF loading THEN "Searching..." ELSE "Search")

\* Which of the sections below the search box is rendered.
ViewMode ==
    IF ~searched THEN "empty"
    ELSE IF variant = "query"
         THEN (IF isLoading THEN "spinner"
               ELSE IF isError THEN "error"
               ELSE "results")
         ELSE (IF loading THEN "spinner" ELSE "results")

\* {repos && repos.map(...)}            (query variant)
\* {repos.map(...)}                     (local-state variant)
ViewCards ==
    IF ViewMode # "results" THEN <<>>
    ELSE IF variant = "query"
         THEN (IF Query.hasData THEN Cards(Query.data) ELSE <<>>)
         ELSE Cards(repos)

\* <Badge>{repos?.length || 0} repositories</Badge>
ViewCount ==
    IF variant = "query"
    THEN (IF Query.hasData THEN Len(Query.data) ELSE 0)
    ELSE Len(repos)

\* {repos && repos.length === 0 && (<p>No public repositories found ...)}
ViewPlaceholder ==
    /\ ViewMode = "results"
    /\ IF variant = "query"
       THEN Query.hasData /\ Len(Query.data) = 0
       ELSE Len(repos) = 0

\* Error fetching repositories: {(error as Error)?.message || 'Unknown error'}
ErrorMessage == IF Query.error = "" THEN "Unknown error" ELSE Query.error

\* The "Try Again" button is part of the error section.
TryAgainRendered == ViewMode = "error"

\* <h2>{username}'s Repositories</h2>: the name in the heading of the
\* results view is the input text of this render.
ViewHeading == username

\* The fetch whose result set is on display (0: none).
DisplayedFrom ==
    IF ViewMode # "results" THEN 0
    ELSE IF variant = "query" THEN Query.from ELSE writer

\* The text the result set on display was fetched for.
DisplayedFor ==
    IF variant = "query" THEN dataFor[username] ELSE reposFor

(***************************************************************************)
(* The fetch layer (query variant).                                        *)
(***************************************************************************)
\* Query reducer, action "fetch": data and, when there is data, status and
\* error are kept.
FetchingState(q) ==
    IF q.hasData THEN [q EXCEPT !.fetchStatus = "fetching"]
    ELSE [q EXCEPT !.fetchStatus = "fetching", !.status = "pending", !.error = ""]

\* Query reducer, action "success".
SuccessState(q, data, id) ==
    [status |-> "success", fetchStatus |-> "idle", hasData |-> TRUE,
     data |-> data, error |-> "", from |-> id]

\* Query reducer, action "error": the data is kept.
ErrorState(q, e) ==
    [q EXCEPT !.status = "error", !.fetchStatus = "idle", !.error = e]

\* fetch(`https://api.github.com/users/${username}/repos?...`): the first
\* attempt of fetch number id, for the text the queryFn closed over.
NewRequest(id, text) ==
    [id |-> id, key |-> text, user |-> text, attempt |-> 0, phase |-> "inflight",
     live |-> TRUE, noRetry |-> FALSE]

\* Query.cancel({silent: true}): the retryer of key k is rejected.  The
\* queryFn does not read the abort signal, so a request in flight stays in
\* flight and its response is dropped; a waiting retry never runs.
Cancelled(k) ==
    {r \in requests : ~(r.key = k /\ r.live)}
        \cup {[r EXCEPT !.live = FALSE] :
                r \in {x \in requests : x.key = k /\ x.live /\ x.phase = "inflight"}}

\* Whether refetch() joins the fetch already running for the current key
\* instead of starting one: Query.fetch with fetchStatus # idle and no data.
Joins == Query.fetchStatus # "idle" /\ ~Query.hasData

\* refetch() of the observer: Query.fetch(options, {cancelRefetch: true}).
refetch ==
    IF Joins
    THEN \* retryer.continueRetry(); return the running promise
         /\ requests' = {IF r.key = username /\ r.live
                         THEN [r EXCEPT !.noRetry = FALSE] ELSE r : r \in requests}
         /\ UNCHANGED <<cache, nextId, overlapped>>
    ELSE /\ nextId <= MaxFetches
         /\ nextId' = nextId + 1
         /\ overlapped' = (requests # {})
         /\ IF Blank(username)
            THEN \* queryFn: if (!username.trim()) return []
                 /\ cache' = [cache EXCEPT ![username] = SuccessState(@, <<>>, nextId)]
                 /\ requests' = Cancelled(username)
            ELSE /\ cache' = [cache EXCEPT ![username] = FetchingState(@)]
                 /\ requests' = Cancelled(username) \cup {NewRequest(nextId, username)}

(***************************************************************************)
(* Event handlers.                                                         *)
(***************************************************************************)
\* Faulty version of handleSearchQuery: no check of the text.
handleSearchQuery_NoGuard ==
    /\ searched' = TRUE
    /\ refetch

\* handleSearch of the query variant.
handleSearchQuery ==
    IF Blank(username)
    THEN UNCHANGED <<searched, cache, requests, nextId, overlapped>>
    ELSE /\ searched' = TRUE
         /\ refetch

\* handleSearch of the local-state variant.
handleSearchLocal ==
    IF Blank(username)
    THEN UNCHANGED <<searched, loading, timers, nextId, overlapped, timerText>>
    ELSE /\ nextId <= MaxFetches
         /\ loading' = TRUE
         /\ searched' = TRUE
         /\ timers' = Append(timers, nextId)
         /\ nextId' = nextId + 1
         /\ overlapped' = (timers # <<>>)
         /\ timerText' = Append(timerText, username)

handleSearch ==
    IF variant = "query"
    THEN handleSearchQuery /\ UNCHANGED <<loading, timers, timerText>>
    ELSE handleSearchLocal /\ UNCHANGED <<cache, requests>>

\* onChange={(e) => setUsername(e.target.value)}.  In the query variant the
\* observer moves to the query of the new key; the query it leaves has no
\* observer left, and if it is fetching its retryer gets cancelRetry().
Type(t) ==
    /\ t # username
    /\ username' = t
    /\ requests' = {IF r.key = username /\ r.live
                    THEN [r EXCEPT !.noRetry = TRUE] ELSE r : r \in requests}
    /\ lastOp' = "type"
    /\ UNCHANGED <<variant, searched, repos, loading, timers, cache, nextId,
                   lastDone, overlapped, writer, timerText, reposFor, dataFor,
                   cardVars>>

\* onKeyPress={handleKeyPress} with e.key === "Enter"
PressEnter ==
    /\ handleSearch
    /\ lastOp' = "enter"
    /\ UNCHANGED <<variant, username, repos, lastDone, writer, reposFor, dataFor,
                   cardVars>>

\* <Button onClick={handleSearch} disabled={...}>: a disabled button
\* dispatches no click.
ClickSearch ==
    /\ IF ButtonDisabled
       THEN UNCHANGED <<searched, loading, timers, cache, requests, nextId,
                        overlapped, timerText>>
       ELSE handleSearch
    /\ lastOp' = "click"
    /\ UNCHANGED <<variant, username, repos, lastDone, writer, reposFor, dataFor,
                   cardVars>>

\* <Button onClick={() => refetch()}>Try Again</Button>
ClickTryAgain ==
    /\ variant = "query"
    /\ TryAgainRendered
    /\ refetch
    /\ lastOp' = "retry"
    /\ UNCHANGED <<variant, username, searched, repos, loading, timers,
                   lastDone, writer, timerText, reposFor, dataFor, cardVars>>

(***************************************************************************)
(* Completions.                                                            *)
(***************************************************************************)
\* Faulty version of ResponseOk: the response of a superseded fetch is stored too.
ResponseOk_NoCancel(r, data) ==
    /\ r \in InFlight
    /\ requests' = requests \ {r}
    /\ cache' = [cache EXCEPT ![r.key] = SuccessState(@, data, r.id)]
    /\ lastDone' = r.id
    /\ lastOp' = "response"
    /\ dataFor' = [dataFor EXCEPT ![r.key] = r.user]
    /\ UNCHANGED <<variant, username, searched, repos, loading, timers, nextId,
                   overlapped, writer, timerText, reposFor, cardVars>>

\* The response of request r arrives with a 2xx status and body data.
ResponseOk(r, data) ==
    /\ r \in InFlight
    /\ requests' = requests \ {r}
    /\ cache' = IF r.live
                THEN [cache EXCEPT ![r.key] = SuccessState(@, data, r.id)]
                ELSE cache
    /\ lastDone' = r.id
    /\ lastOp' = "response"
    /\ dataFor' = IF r.live
                  THEN [dataFor EXCEPT ![r.key] = r.user]
                  ELSE dataFor
    /\ UNCHANGED <<variant, username, searched, repos, loading, timers, nextId,
                   overlapped, writer, timerText, reposFor, cardVars>>

\* Whether the retryer gives up after this failure:
\* isRetryCancelled || !(failureCount < retry)
GivesUp(r) == r.noRetry \/ ~(r.attempt < DefaultRetry)

\* Request r fails with e: response.ok is false (queryFn throws) or fetch
\* rejects.  The retryer retries after a delay or rejects.
ResponseFail(r, e) ==
    /\ r \in InFlight
    /\ IF ~r.live
       THEN /\ requests' = requests \ {r}
            /\ cache' = cache
       ELSE IF GivesUp(r)
       THEN /\ requests' = requests \ {r}
            /\ cache' = [cache EXCEPT ![r.key] = ErrorState(@, e)]
       ELSE /\ requests' = (requests \ {r})
                 \cup {[r EXCEPT !.attempt = @ + 1, !.phase = "sleeping"]}
            /\ cache' = cache
    /\ lastOp' = "failure"
    /\ UNCHANGED <<variant, username, searched, repos, loading, timers, nextId,
                   lastDone, overlapped, writer, timerText, reposFor, dataFor,
                   cardVars>>

\* The retry delay of r is over: the queryFn runs again (a new network
\* request for the same URL), unless the retry was cancelled meanwhile; then
\* the retryer rejects with e, the reason of the failure it was waiting after.
\* Nothing reads that reason before this step, so it is drawn here.
BackoffElapsed(r, e) ==
    /\ r \in requests
    /\ r.phase = "sleeping"
    /\ IF r.noRetry
       THEN /\ requests' = requests \ {r}
            /\ cache' = [cache EXCEPT ![r.key] = ErrorState(@, e)]
       ELSE /\ requests' = (requests \ {r}) \cup {[r EXCEPT !.phase = "inflight"]}
            /\ cache' = cache
    /\ lastOp' = "backoff"
    /\ UNCHANGED <<variant, username, searched, repos, loading, timers, nextId,
                   lastDone, overlapped, writer, timerText, reposFor, dataFor,
                   cardVars>>

\* gcTime is over for a query without observer that is not fetching: the
\* cache removes it, and the next observer of the key builds a new one.
GcQuery(k) ==
    /\ variant = "query"
    /\ k # username
    /\ cache[k].fetchStatus = "idle"
    /\ cache[k] # DefaultQuery
    /\ cache' = [cache EXCEPT ![k] = DefaultQuery]
    /\ dataFor' = [dataFor EXCEPT ![k] = <<>>]
    /\ lastOp' = "gc"
    /\ UNCHANGED <<variant, username, searched, repos, loading, timers, requests,
                   nextId, lastDone, overlapped, writer, timerText, reposFor,
                   cardVars>>

\* setTimeout(() => { setRepos(dummyRepos); setLoading(false) }, 1000)
TimerFires ==
    /\ variant = "local"
    /\ timers # <<>>
    /\ repos' = dummyRepos
    /\ loading' = FALSE
    /\ timers' = Tail(timers)
    /\ writer' = Head(timers)
    /\ timerText' = Tail(timerText)
    /\ reposFor' = Head(timerText)
    /\ lastDone' = Head(timers)
    /\ lastOp' = "timer"
    /\ UNCHANGED <<variant, username, searched, cache, requests, nextId,
                   overlapped, dataFor, cardVars>>

Next ==
    \/ \E t \in Texts : Type(t)
    \/ PressEnter
    \/ ClickSearch
    \/ ClickTryAgain
    \/ \E r \in requests, data \in Responses : ResponseOk(r, data)
    \/ \E r \in requests, e \in Failures : ResponseFail(r, e)
    \/ \E r \in requests, e \in Failures : BackoffElapsed(r, e)
    \/ \E k \in Texts : GcQuery(k)
    \/ TimerFires

Spec == Init /\ [][Next]_vars

(***************************************************************************)
(* The card renderer on its own: the topic list of one repository is drawn *)
(* from all lists of up to MaxTopics topics and rendered.                  *)
(***************************************************************************)
TopicNames == {"t1", "t2"}

InitCard ==
    /\ variant = "query"
    /\ username = <<>>
    /\ searched = FALSE
    /\ repos = <<>>
    /\ loading = FALSE
    /\ timers = <<>>
    /\ cache = [k \in Texts |-> DefaultQuery]
    /\ requests = {}
    /\ nextId = 1
    /\ lastOp = "mount"
    /\ lastDone = 0
    /\ overlapped = FALSE
    /\ writer = 0
    /\ timerText = <<>>
    /\ reposFor = <<>>
    /\ dataFor = [k \in Texts |-> <<>>]
    /\ cardTopics \in SeqsUpTo(TopicNames, MaxTopics)
    /\ cardBadges = <<>>

RenderTopics ==
    /\ lastOp = "mount"
    /\ cardBadges' = TopicBadges(cardTopics)
    /\ lastOp' = "render"
    /\ UNCHANGED <<progVars, lastDone, overlapped, writer, timerText, reposFor,
                   dataFor, cardTopics>>

NextCard == RenderTopics

SpecCard == InitCard /\ [][NextCard]_vars

(***************************************************************************)
(* Vocabulary of the properties.                                           *)
(***************************************************************************)
\* The outbound requests that are in flight (query variant): request
\* number "attempt" of fetch "id", for user "user".
Outbound == {[id |-> r.id, attempt |-> r.attempt, user |-> r.user] : r \in InFlight}

\* A step that runs handleSearch on non-blank text: Enter, or a click on the
\* enabled button.
TriggerStep ==
    /\ ~Blank(username)
    /\ \/ PressEnter
       \/ ClickSearch /\ ~ButtonDisabled

\* A step that runs handleSearch on blank text (Enter), or a click on the
\* button while the text is blank.
BlankTriggerStep ==
    /\ Blank(username)
    /\ PressEnter \/ ClickSearch

\* A step taken by the user.
UserStep == PressEnter \/ ClickSearch \/ ClickTryAgain \/ (\E t \in Texts : Type(t))

(***************************************************************************)
(* C1.  At most one fetch is outstanding at any time: a network request    *)
(* in the query variant, a simulated timer in the local-state variant.     *)
(* The code does not keep this: Enter is not disabled while a fetch is in  *)
(* flight, and in the query variant the button is enabled again as soon as *)
(* the text is changed.                                                    *)
(***************************************************************************)
C1_AtMostOneOutstanding == Cardinality(Outstanding) <= 1

(***************************************************************************)
(* C2.  Each trigger with non-blank text sets searched and starts exactly  *)
(* one outbound request (timer), for the text held at the trigger; and no  *)
(* request is issued except by a trigger or by Try Again.  The code does   *)
(* not keep this: the query client is built with default options, so the   *)
(* fetch layer sends a failed request again by itself, up to DefaultRetry  *)
(* times, before the failure is surfaced; and a trigger that arrives while *)
(* the first fetch of the same text is loading joins that fetch and sends  *)
(* nothing.                                                                *)
(***************************************************************************)
C2_OneRequestPerTriggerNoAutoRetry ==
    [][ /\ TriggerStep =>
            /\ searched'
            /\ IF variant = "query"
               THEN Outbound' \ Outbound =
                        {[id |-> nextId, attempt |-> 0, user |-> username]}
               ELSE Outstanding' \ Outstanding = {nextId}
        /\ Outbound' \ Outbound # {} =>
               PressEnter \/ ClickSearch \/ ClickTryAgain ]_vars

(***************************************************************************)
(* C3.  A trigger (Enter or click) while the text is empty or whitespace   *)
(* only starts no fetch and changes no state: searched, loading, the       *)
(* stored results, the cache, the requests and the timers are unchanged,   *)
(* and if no search was performed the empty state stays rendered.          *)
(***************************************************************************)
C3_BlankTriggerIsNoOp ==
    [][ BlankTriggerStep =>
            /\ UNCHANGED progVars
            /\ Outstanding' = Outstanding
            /\ (~searched => ViewMode' = "empty") ]_vars

\* Enter was pressed on whitespace-only text before any search.
C3_Witness ==
    /\ lastOp = "enter"
    /\ username = <<" ">>
    /\ ~searched
    /\ ViewMode = "empty"
    /\ Outstanding = {}

(***************************************************************************)
(* C4.  When a request fails with a non-2xx response the error message and *)
(* Try Again are rendered, and Try Again sends a request for the username  *)
(* of the request that failed.  The code does not keep this: the first     *)
(* DefaultRetry failures of a fetch are retried silently and the spinner   *)
(* stays; and the error belongs to the query of the text that was fetched, *)
(* so after the input is edited neither the message nor Try Again is       *)
(* rendered.                                                               *)
(***************************************************************************)
C4_FailureRendersErrorAndRetry ==
    [][ /\ \A r \in requests :
              (r.live /\ ResponseFail(r, "GitHub API error: 404")) =>
                  ViewMode' = "error" /\ TryAgainRendered'
        /\ ClickTryAgain =>
              \E o \in Outbound' \ Outbound : o.user = username ]_vars

C6_LoadingWhileOutstanding ==
    /\ Outstanding # {} =>
          /\ ViewMode = "spinner"
          /\ ButtonDisabled
          /\ ButtonLabel = "Searching..."
    /\ ~ButtonDisabled => (Outstanding = {} /\ ~Blank(username))

(***************************************************************************)
(* C7.  Once a new search has been triggered, the result set of an earlier *)
(* search is not displayed any more: whatever result set is displayed      *)
(* comes from the newest fetch.  (Stated for a newest fetch that was       *)
(* started while no other fetch was unsettled, so that a violation does    *)
(* not rest on overlapping fetches.)  The code does not keep this in the   *)
(* query variant: a fetch keeps the data of its query, and the loading     *)
(* flag is false for a query that has data, so the earlier cards stay on   *)
(* display while the new request is in flight; and the result set of an    *)
(* earlier search is displayed again, without any fetch, when the input    *)
(* returns to its text.                                                    *)
(***************************************************************************)
C7_DisplayedIsNewestFetch ==
    (~overlapped /\ ViewMode = "results" /\ DisplayedFrom # 0)
        => DisplayedFrom = nextId - 1

(***************************************************************************)
(* C8.  After a request succeeds with a list of N repositories, exactly N  *)
(* cards are rendered, one per repository, in the order of the response,   *)
(* and the count badge shows N (local-state variant: the timer, whose list *)
(* is dummyRepos).  The code does not keep this in the query variant: when *)
(* the input was edited while the request was in flight the response is    *)
(* stored for the text that was fetched and the view shows no card and a   *)
(* count of 0 for the new text, and the response of a fetch superseded by  *)
(* a newer one is dropped.                                                 *)
(***************************************************************************)
ShowsExactly(list) ==
    /\ ViewMode = "results"
    /\ Len(ViewCards) = Len(list)
    /\ \A i \in 1 .. Len(list) :
          ViewCards[i].key = list[i].id /\ ViewCards[i].title = list[i].name
    /\ ViewCount = Len(list)

C8_OneCardPerRepositoryInOrder ==
    [][ /\ \A r \in requests, data \in Responses :
              ResponseOk(r, data) => ShowsExactly(data)'
        /\ TimerFires => ShowsExactly(dummyRepos)' ]_vars

(***************************************************************************)
(* C9.  After a request succeeds with an empty array the "No public        *)
(* repositories found" placeholder is rendered and no card is; and in the  *)
(* results view the placeholder is rendered exactly when zero cards are.   *)
(* The code does not keep the second part: in the query variant the        *)
(* results view is also rendered for a text that was never fetched, with   *)
(* no card and no placeholder.                                             *)
(***************************************************************************)
C9_PlaceholderIffNoCards ==
    ViewMode = "results" => (ViewPlaceholder <=> Len(ViewCards) = 0)

(***************************************************************************)
(* C10.  For a repository with n topics the card renders the first         *)
(* min(n, 3) topics as badges in their original order, and one more badge  *)
(* reading "+(n-3)" exactly when n > 3.                                    *)
(***************************************************************************)
C10_TopicBadges ==
    lastOp = "render" =>
        LET n == Len(cardTopics)
            m == IF n < 3 THEN n ELSE 3
        IN  /\ Len(cardBadges) = m + (IF n > 3 THEN 1 ELSE 0)
            /\ \A i \in 1 .. m :
                  cardBadges[i].kind = "topic" /\ cardBadges[i].text = cardTopics[i]
            /\ n > 3 =>
                  /\ cardBadges[m + 1].kind = "overflow"
                  /\ cardBadges[m + 1].text = "+"
                  /\ cardBadges[m + 1].count = n - 3

\* Five topics were rendered as three badges and "+2".
C10_Witness ==
    /\ lastOp = "render"
    /\ Len(cardTopics) = 5
    /\ Len(cardBadges) = 4
    /\ cardBadges[3] = [kind |-> "topic", text |-> cardTopics[3], count |-> 0]
    /\ cardBadges[4] = [kind |-> "overflow", text |-> "+", count |-> 2]

(***************************************************************************)
(* C11.  Whenever the results view shows a fetched result set, the name in *)
(* its heading "<username>'s Repositories" is the text that result set was *)
(* fetched for: editing the input after a search has completed never       *)
(* leaves the results of one user under the name of another.               *)
(***************************************************************************)
C11_HeadingNamesFetchedUser ==
    (ViewMode = "results" /\ DisplayedFrom # 0) => ViewHeading = DisplayedFor

====
